---- MODULE Spec2Model ----
(***************************************************************************)
(* State-machine model of the Flask e-commerce application in              *)
(* src/app/__init__.py: the route handlers over the relational store       *)
(* (User, Cart, Order, Ordered_item rows), the login session and the       *)
(* signed confirmation tokens.                                             *)
(***************************************************************************)
EXTENDS Integers, Sequences, FiniteSets, TLC

VARIABLES users,          \* User table: sequence of rows, id = index
          carts,          \* Cart table: set of rows [uid, itemid, quantity]
          orders,         \* Order table: sequence of rows, id = index
          ordered_items,  \* Ordered_item table: sequence of rows
          current_user,   \* flask_login session: user id, 0 = anonymous
          now,            \* wall clock, in ticks
          tokens,         \* confirmation tokens that have been issued
          request,        \* the request handled last
          response,       \* its response
          inflight        \* position of each concurrent place_order request

vars == <<users, carts, orders, ordered_items, current_user, now, tokens,
          request, response, inflight>>

(* ------------------------------ bounds -------------------------------- *)
MaxOrders == 1
MaxQty == 2
MaxTicks == 2
MaxTokens == 1
TickSeconds == 3600

Emails == {"a@x", "b@x"}
Passwords == {1, 2}
Salts == {1, 2}
Quantities == {1, 2}
Requests == {1, 2}

(* ----------------------------- catalog -------------------------------- *)
\* Item table (read-only): id = index, value = price
ItemPrice == <<5, 7>>
ItemIds == DOMAIN ItemPrice
UnknownItemId == Len(ItemPrice) + 1

\* Item.query.get(id): the id of the row, or 0 for None
ItemGet(id) == IF id \in ItemIds THEN id ELSE 0

(* --------------------------- collaborators ---------------------------- *)
MAX_AGE == 3600

Digest(salt, pw) == (pw * 7 + salt * 3) % 11

\* werkzeug generate_password_hash(password, method='pbkdf2:sha256', salt_length=8)
generate_password_hash(pw, salt) ==
    [method |-> "pbkdf2:sha256", salt |-> salt, digest |-> Digest(salt, pw)]

\* the digest is not compared
check_password_hash_Any(pwhash, pw) == pwhash.method = "pbkdf2:sha256"

\* werkzeug check_password_hash(pwhash, password)
check_password_hash(pwhash, pw) == Digest(pwhash.salt, pw) = pwhash.digest

\* a token whose signature does not verify
GarbageToken == [email |-> "", ts |-> 0, sig |-> FALSE]

\* URLSafeTimedSerializer.dumps(email, salt='email-confirmation-salt') at time t
IssueToken(email, t) == [email |-> email, ts |-> t, sig |-> TRUE]

TokenAge(token, t) == (t - token.ts) * TickSeconds

\* loads without max_age
Loads_NoMaxAge(token, t) == IF ~token.sig THEN "" ELSE token.email

\* URLSafeTimedSerializer.loads(token, salt=..., max_age=3600): the email, or
\* "" when BadSignature / SignatureExpired is raised
Loads(token, t) ==
    IF ~token.sig THEN ""
    ELSE IF TokenAge(token, t) > MAX_AGE THEN ""
    ELSE token.email

(* ------------------------------ helpers ------------------------------- *)
NoRequest == [handler |-> "none", method |-> "GET", submit |-> FALSE,
              email |-> "", password |-> 0, token |-> GarbageToken,
              id |-> 0, quantity |-> 0, fault |-> "none"]

Req(handler) == [NoRequest EXCEPT !.handler = handler]

Resp(outcome) == [outcome |-> outcome, price |-> 0, items |-> <<>>, quantity |-> <<>>]

\* the lookup finds nothing
UserByEmail_Miss(email) == 0

\* User.query.filter_by(email=email).first(): the id of the row, or 0 for None
UserByEmail(email) ==
    IF \E i \in DOMAIN users : users[i].email = email
    THEN CHOOSE i \in DOMAIN users :
            /\ users[i].email = email
            /\ \A j \in DOMAIN users : users[j].email = email => i <= j
    ELSE 0

\* column default of User.email_confirmed
DefaultEmailConfirmed == FALSE

IdleRequest == [pc |-> "idle", new_order |-> 0, loaded |-> <<>>, result |-> "none"]

Idle == \A r \in Requests : inflight[r].pc = "idle"

(* ------------------------- identity & session ------------------------- *)
login(email, pw, submit) ==
    /\ Idle
    /\ request' = [Req("login") EXCEPT !.email = email, !.password = pw, !.submit = submit,
                                       !.method = IF submit THEN "POST" ELSE "GET"]
    /\ IF current_user # 0
       THEN /\ response' = Resp("Home")
            /\ UNCHANGED current_user
       ELSE IF ~submit
       THEN /\ response' = Resp("Render")
            /\ UNCHANGED current_user
       ELSE LET user == UserByEmail(email) IN
            IF user = 0
            THEN /\ response' = Resp("NoSuchUser")
                 /\ UNCHANGED current_user
            ELSE IF check_password_hash(users[user].password, pw)
            THEN /\ current_user' = user
                 /\ response' = Resp("LoggedIn")
            ELSE /\ response' = Resp("InvalidCredential")
                 /\ UNCHANGED current_user
    /\ UNCHANGED <<users, carts, orders, ordered_items, now, tokens, inflight>>

register(email, pw, salt, submit) ==
    /\ Idle
    /\ request' = [Req("register") EXCEPT !.email = email, !.password = pw, !.submit = submit,
                                          !.method = IF submit THEN "POST" ELSE "GET"]
    /\ IF current_user # 0
       THEN /\ response' = Resp("Home")
            /\ UNCHANGED users
       ELSE IF ~submit
       THEN /\ response' = Resp("Render")
            /\ UNCHANGED users
       ELSE IF UserByEmail(email) # 0
       THEN /\ response' = Resp("Conflict")
            /\ UNCHANGED users
       ELSE /\ users' = Append(users, [email |-> email,
                                       password |-> generate_password_hash(pw, salt),
                                       email_confirmed |-> DefaultEmailConfirmed])
            /\ response' = Resp("Registered")
    /\ UNCHANGED <<carts, orders, ordered_items, current_user, now, tokens, inflight>>

confirm_email(token) ==
    /\ Idle
    /\ request' = [Req("confirm_email") EXCEPT !.token = token]
    /\ LET email == Loads(token, now) IN
       IF email = ""
       THEN /\ response' = Resp("TokenExpiredOrInvalid")
            /\ UNCHANGED users
       ELSE LET user == UserByEmail(email) IN
            IF user = 0
            THEN /\ response' = Resp("UnhandledException")
                 /\ UNCHANGED users
            ELSE IF users[user].email_confirmed
            THEN /\ response' = Resp("AlreadyConfirmed")
                 /\ UNCHANGED users
            ELSE /\ users' = [users EXCEPT ![user].email_confirmed = TRUE]
                 /\ response' = Resp("Confirmed")
    /\ UNCHANGED <<carts, orders, ordered_items, current_user, now, tokens, inflight>>

logout ==
    /\ Idle
    /\ request' = Req("logout")
    /\ IF current_user = 0
       THEN /\ response' = Resp("Unauthorized")
            /\ UNCHANGED current_user
       ELSE /\ current_user' = 0
            /\ response' = Resp("LoggedOut")
    /\ UNCHANGED <<users, carts, orders, ordered_items, now, tokens, inflight>>

\* funcs.send_confirmation_email(email): issues a token bound to the email
send_confirmation_email(email) == tokens \cup {IssueToken(email, now)}

resend ==
    /\ Idle
    /\ request' = Req("resend")
    /\ IF current_user = 0
       THEN /\ response' = Resp("Unauthorized")
            /\ UNCHANGED <<current_user, tokens>>
       ELSE /\ Cardinality(send_confirmation_email(users[current_user].email)) <= MaxTokens
            /\ tokens' = send_confirmation_email(users[current_user].email)
            /\ current_user' = 0
            /\ response' = Resp("ConfirmationSent")
    /\ UNCHANGED <<users, carts, orders, ordered_items, now, inflight>>

\* passage of time between requests
Tick ==
    /\ Idle
    /\ now < MaxTicks
    /\ now' = now + 1
    /\ UNCHANGED <<users, carts, orders, ordered_items, current_user, tokens,
                   request, response, inflight>>


(* -------------------------------- cart -------------------------------- *)
\* rows of a set of Cart rows in the order the relationship loads them
RECURSIVE RowsInOrder(_)
RowsInOrder(rows) ==
    IF rows = {} THEN <<>>
    ELSE LET first == CHOOSE c \in rows : \A d \in rows : c.itemid <= d.itemid
         IN  <<first>> \o RowsInOrder(rows \ {first})

\* User.cart relationship: the Cart rows of the user
UserCart(uid) == RowsInOrder({c \in carts : c.uid = uid})

\* User.add_to_cart(itemid, quantity): create the CartEntry of (user, item) or
\* increment it by quantity
UserAddToCart(uid, itemid, quantity) ==
    IF \E c \in carts : c.uid = uid /\ c.itemid = itemid
    THEN {IF c.uid = uid /\ c.itemid = itemid
          THEN [c EXCEPT !.quantity = c.quantity + quantity] ELSE c : c \in carts}
    ELSE carts \cup {[uid |-> uid, itemid |-> itemid, quantity |-> quantity]}

\* User.remove_from_cart(itemid, quantity): the possible results of decrementing
\* or deleting the matching CartEntry
UserRemoveFromCart(uid, itemid, quantity) ==
    IF \E c \in carts : c.uid = uid /\ c.itemid = itemid /\ c.quantity > quantity
    THEN {{IF c.uid = uid /\ c.itemid = itemid
           THEN [c EXCEPT !.quantity = c.quantity - quantity] ELSE c : c \in carts}}
    ELSE {carts, {c \in carts : ~(c.uid = uid /\ c.itemid = itemid)}}

add_to_cart(id, quantity) ==
    /\ Idle
    /\ request' = [Req("add_to_cart") EXCEPT !.method = "POST", !.id = id, !.quantity = quantity]
    /\ IF current_user = 0
       THEN /\ response' = Resp("Unauthorized")
            /\ UNCHANGED carts
       ELSE LET item == ItemGet(id) IN
            IF item = 0
            THEN \* the store rejects a row for an item it does not hold, or
                 \* item.name raises on None
                 /\ response' = Resp("UnhandledException")
                 /\ UNCHANGED carts
            ELSE /\ \A c \in UserAddToCart(current_user, id, quantity) : c.quantity <= MaxQty
                 /\ carts' = UserAddToCart(current_user, id, quantity)
                 /\ response' = Resp("Added")
    /\ UNCHANGED <<users, orders, ordered_items, current_user, now, tokens, inflight>>

\* price += cart.item.price, the quantity forgotten
RECURSIVE CartPrice_NoQuantity(_)
CartPrice_NoQuantity(rows) ==
    IF rows = <<>> THEN 0
    ELSE CartPrice_NoQuantity(SubSeq(rows, 1, Len(rows) - 1)) + ItemPrice[rows[Len(rows)].itemid]

RECURSIVE CartPrice(_)
CartPrice(rows) ==
    IF rows = <<>> THEN 0
    ELSE CartPrice(SubSeq(rows, 1, Len(rows) - 1))
         + ItemPrice[rows[Len(rows)].itemid] * rows[Len(rows)].quantity

cart ==
    /\ Idle
    /\ request' = Req("cart")
    /\ IF current_user = 0
       THEN response' = Resp("Unauthorized")
       ELSE LET rows == UserCart(current_user) IN
            response' = [outcome |-> "CartView",
                         price |-> CartPrice(rows),
                         items |-> [i \in DOMAIN rows |-> rows[i].itemid],
                         quantity |-> [i \in DOMAIN rows |-> rows[i].quantity]]
    /\ UNCHANGED <<users, carts, orders, ordered_items, current_user, now, tokens, inflight>>

remove(id, quantity) ==
    /\ Idle
    /\ request' = [Req("remove") EXCEPT !.id = id, !.quantity = quantity]
    /\ IF current_user = 0
       THEN /\ response' = Resp("Unauthorized")
            /\ UNCHANGED carts
       ELSE /\ carts' \in UserRemoveFromCart(current_user, id, quantity)
            /\ response' = Resp("Removed")
    /\ UNCHANGED <<users, orders, ordered_items, current_user, now, tokens, inflight>>

item(id) ==
    /\ Idle
    /\ request' = [Req("item") EXCEPT !.id = id]
    /\ response' = [Resp("ItemView") EXCEPT !.items = <<ItemGet(id)>>]
    /\ UNCHANGED <<users, carts, orders, ordered_items, current_user, now, tokens, inflight>>

(* ------------------------------- orders ------------------------------- *)
checkout(method) ==
    /\ Idle
    /\ request' = [Req("checkout") EXCEPT !.method = method]
    /\ IF current_user = 0
       THEN response' = Resp("Unauthorized")
       ELSE IF method = "POST"
       THEN \* orders(uid=...) calls the view function of line 187: TypeError
            response' = Resp("UnhandledException")
       ELSE response' = Resp("Render")
    /\ UNCHANGED <<users, carts, orders, ordered_items, current_user, now, tokens, inflight>>

\* Order(uid=current_user.id, date=datetime.utcnow(), status="Pending")
NewOrder(uid) == [uid |-> uid, date |-> now, status |-> "Pending"]

\* the loop stops before the last cart row
TransferRows_DropLast(rows, oid) ==
    [i \in 1..(Len(rows) - 1) |->
        [oid |-> oid, itemid |-> rows[i].itemid, quantity |-> rows[i].quantity]]

\* the Ordered_item rows the loop adds for the loaded cart rows
TransferRows(rows, oid) ==
    [i \in DOMAIN rows |-> [oid |-> oid, itemid |-> rows[i].itemid, quantity |-> rows[i].quantity]]

\* the Cart table after the loop's session.delete of the loaded cart rows
DeleteRows(rows) == {c \in carts : \A i \in DOMAIN rows : rows[i] # c}

\* the guard left out
CartIsEmpty_NoGuard(uid) == FALSE

\* line 226: not current_user.cart
CartIsEmpty(uid) == UserCart(uid) = <<>>

place_order(fault) ==
    /\ Idle
    /\ request' = [Req("place_order") EXCEPT !.method = "POST", !.fault = fault]
    /\ IF current_user = 0
       THEN /\ response' = Resp("Unauthorized")
            /\ UNCHANGED <<carts, orders, ordered_items>>
       ELSE IF CartIsEmpty(current_user)
       THEN /\ response' = Resp("EmptyCart")
            /\ UNCHANGED <<carts, orders, ordered_items>>
       ELSE IF fault = "create"
       THEN \* the first commit raises: rollback, nothing was committed
            /\ response' = Resp("TransactionFailure")
            /\ UNCHANGED <<carts, orders, ordered_items>>
       ELSE /\ Len(orders) < MaxOrders
            /\ orders' = Append(orders, NewOrder(current_user))
            /\ IF fault = "transfer"
               THEN \* the loop or the second commit raises: rollback of what
                    \* followed the first commit
                    /\ response' = Resp("TransactionFailure")
                    /\ UNCHANGED <<carts, ordered_items>>
               ELSE /\ ordered_items' = ordered_items
                            \o TransferRows(UserCart(current_user), Len(orders) + 1)
                    /\ carts' = DeleteRows(UserCart(current_user))
                    /\ response' = Resp("OrderPlaced")
    /\ UNCHANGED <<users, current_user, now, tokens, inflight>>

Faults == {"none", "create", "transfer"}


(* ------------------- place_order, request by request ------------------ *)
\* The steps of one place_order request running beside another one of the
\* same user; every commit is a point where the other request may run.
Goto(r, pc) == [inflight EXCEPT ![r].pc = pc]

\* line 226: the cart-empty guard
po_guard(r) ==
    /\ inflight[r].pc = "start"
    /\ inflight' = IF CartIsEmpty(current_user)
                   THEN [inflight EXCEPT ![r].pc = "done", ![r].result = "EmptyCart"]
                   ELSE Goto(r, "create")
    /\ UNCHANGED <<users, carts, orders, ordered_items, current_user, now, tokens,
                   request, response>>

\* lines 232-238: the Order row is added and committed
po_create(r) ==
    /\ inflight[r].pc = "create"
    /\ orders' = Append(orders, NewOrder(current_user))
    /\ inflight' = [inflight EXCEPT ![r].pc = "load", ![r].new_order = Len(orders) + 1]
    /\ UNCHANGED <<users, carts, ordered_items, current_user, now, tokens, request, response>>

\* line 241: current_user.cart, expired by the commit, is loaded again
po_load(r) ==
    /\ inflight[r].pc = "load"
    /\ inflight' = [inflight EXCEPT ![r].pc = "transfer", ![r].loaded = UserCart(current_user)]
    /\ UNCHANGED <<users, carts, orders, ordered_items, current_user, now, tokens,
                   request, response>>

\* lines 242-250: the loop and the second commit.  A DELETE of a row that the
\* other request has deleted matches no row: the store either goes on
\* (stale = "warn") or raises (stale = "raise") and the handler rolls back.
po_transfer(r, stale) ==
    /\ inflight[r].pc = "transfer"
    /\ LET rows == inflight[r].loaded
           gone == \E i \in DOMAIN rows : rows[i] \notin carts
       IN  IF gone /\ stale = "raise"
           THEN /\ inflight' = [inflight EXCEPT ![r].pc = "done",
                                                ![r].result = "TransactionFailure"]
                /\ UNCHANGED <<carts, ordered_items>>
           ELSE /\ ordered_items' = ordered_items \o TransferRows(rows, inflight[r].new_order)
                /\ carts' = DeleteRows(rows)
                /\ inflight' = [inflight EXCEPT ![r].pc = "done", ![r].result = "OrderPlaced"]
    /\ UNCHANGED <<users, orders, current_user, now, tokens, request, response>>

(* --------------------------- specifications --------------------------- *)
Init ==
    /\ users = <<>>
    /\ carts = {}
    /\ orders = <<>>
    /\ ordered_items = <<>>
    /\ current_user = 0
    /\ now = 0
    /\ tokens = {}
    /\ request = NoRequest
    /\ response = Resp("none")
    /\ inflight = [r \in Requests |-> IdleRequest]

Register == \E email \in Emails, pw \in Passwords, salt \in Salts, submit \in BOOLEAN :
                register(email, pw, salt, submit)
Login == \E email \in Emails, pw \in Passwords, submit \in BOOLEAN : login(email, pw, submit)
Confirm == \E token \in tokens \cup {GarbageToken} : confirm_email(token)

NextIdentity == Register \/ Login \/ Confirm \/ logout \/ resend \/ Tick

SpecIdentity == Init /\ [][NextIdentity]_vars

\* two registered accounts
RegisteredUsers ==
    <<[email |-> "a@x", password |-> generate_password_hash(1, 1),
       email_confirmed |-> DefaultEmailConfirmed],
      [email |-> "b@x", password |-> generate_password_hash(2, 2),
       email_confirmed |-> DefaultEmailConfirmed]>>

\* the Cart tables that earlier sessions have left behind
EarlierCarts == {{}, {[uid |-> 1, itemid |-> 2, quantity |-> 1]},
                     {[uid |-> 2, itemid |-> 1, quantity |-> 1]}}

\* nobody is logged in; the session that logs in then shops
InitShop ==
    /\ users = RegisteredUsers
    /\ carts \in EarlierCarts
    /\ orders = <<>>
    /\ ordered_items = <<>>
    /\ current_user = 0
    /\ now = 0
    /\ tokens = {}
    /\ request = NoRequest
    /\ response = Resp("none")
    /\ inflight = [r \in Requests |-> IdleRequest]

AddToCart == \E id \in ItemIds \cup {UnknownItemId}, quantity \in Quantities : add_to_cart(id, quantity)
Remove == \E id \in ItemIds, quantity \in Quantities : remove(id, quantity)
Item == \E id \in ItemIds \cup {UnknownItemId} : item(id)
Checkout == \E method \in {"GET", "POST"} : checkout(method)
PlaceOrder == \E fault \in Faults : place_order(fault)

\* the credentials the two accounts were registered with
Credentials == {<<"a@x", 1>>, <<"b@x", 2>>}
ShopLogin == \E c \in Credentials : login(c[1], c[2], TRUE)

NextShop == ShopLogin \/ AddToCart \/ Remove \/ cart \/ Item \/ Checkout \/ PlaceOrder

SpecShop == InitShop /\ [][NextShop]_vars

\* the Cart tables that add_to_cart can build: one row per (user, item)
CartRows == [uid : DOMAIN RegisteredUsers, itemid : ItemIds, quantity : 1..MaxQty]
CartTables == {t \in SUBSET CartRows :
                 \A c, d \in t : (c.uid = d.uid /\ c.itemid = d.itemid) => c = d}

\* a logged-in user with a non-empty cart sends two place_order requests
InitConcurrent ==
    /\ users = RegisteredUsers
    /\ current_user = 1
    /\ carts \in {t \in CartTables : \E c \in t : c.uid = current_user}
    /\ orders = <<>>
    /\ ordered_items = <<>>
    /\ now = 0
    /\ tokens = {}
    /\ request = Req("place_order")
    /\ response = Resp("none")
    /\ inflight = [r \in Requests |-> [IdleRequest EXCEPT !.pc = "start"]]

Guard == \E r \in Requests : po_guard(r)
Create == \E r \in Requests : po_create(r)
Load == \E r \in Requests : po_load(r)
Transfer == \E r \in Requests, stale \in {"warn", "raise"} : po_transfer(r, stale)

NextConcurrent == Guard \/ Create \/ Load \/ Transfer

SpecConcurrent == InitConcurrent /\ [][NextConcurrent]_vars

(* ------------------------------- claims ------------------------------- *)
\* the step is the handling of a request by the named handler
Handles(handler) == request'.handler = handler /\ now' = now

CartRowsOf(table, uid) == {c \in table : c.uid = uid}
Pairs(rows) == {<<c.itemid, c.quantity>> : c \in rows}
LinesOf(lines, oid) == {i \in DOMAIN lines : lines[i].oid = oid}
IsPrefix(s, t) == Len(s) <= Len(t) /\ SubSeq(t, 1, Len(s)) = s

RECURSIVE SumOverRows(_)
SumOverRows(rows) ==
    IF rows = {} THEN 0
    ELSE LET c == CHOOSE d \in rows : TRUE
         IN  ItemPrice[c.itemid] * c.quantity + SumOverRows(rows \ {c})

PlacesOrder == /\ Handles("place_order")
               /\ current_user # 0
               /\ CartRowsOf(carts, current_user) # {}

\* the new Order exists with all its line items and the user's cart is empty
OrderComplete ==
    /\ Len(orders') = Len(orders) + 1
    /\ IsPrefix(orders, orders')
    /\ orders'[Len(orders')].uid = current_user
    /\ orders'[Len(orders')].status = "Pending"
    /\ IsPrefix(ordered_items, ordered_items')
    /\ LinesOf(ordered_items', Len(orders')) = (Len(ordered_items) + 1)..Len(ordered_items')
    /\ Cardinality(LinesOf(ordered_items', Len(orders')))
          = Cardinality(CartRowsOf(carts, current_user))
    /\ {<<ordered_items'[i].itemid, ordered_items'[i].quantity>> :
            i \in LinesOf(ordered_items', Len(orders'))}
          = Pairs(CartRowsOf(carts, current_user))
    /\ CartRowsOf(carts', current_user) = {}
    /\ carts' = carts \ CartRowsOf(carts, current_user)

NothingChanged == orders' = orders /\ ordered_items' = ordered_items /\ carts' = carts

\* C1: place_order is all-or-nothing: after a request that passed the
\* cart-empty guard, either the new Order with all its line items exists and
\* the user's cart is empty, or no Order, Ordered_item or Cart row changed.
C1_AllOrNothing == [][PlacesOrder => (OrderComplete \/ NothingChanged)]_vars

\* C2: place_order by a user with a non-empty cart and no failure creates
\* exactly one Order of that user with status "Pending", whose line items are
\* exactly the (item, quantity) pairs of the cart, each once, and leaves the
\* user without Cart rows.
C2_ExactlyOnceTransfer ==
    [][(PlacesOrder /\ request'.fault = "none")
          => (OrderComplete /\ response'.outcome = "OrderPlaced")]_vars

C2_Witness ==
    /\ request.handler = "place_order"
    /\ response.outcome = "OrderPlaced"
    /\ Len(orders) = 1
    /\ Len(ordered_items) = 2
    /\ \E i \in DOMAIN ordered_items : ordered_items[i].quantity = 2
    /\ CartRowsOf(carts, current_user) = {}
    /\ carts # {}

AllDone == \A r \in Requests : inflight[r].pc = "done"

\* C3: two concurrent place_order requests of one user on one cart never
\* transfer a cart entry into the line items of two Orders, and leave no
\* Order without line items behind.
C3_NoDoubleSpend ==
    AllDone =>
        /\ \A i, j \in DOMAIN ordered_items :
              ordered_items[i].itemid = ordered_items[j].itemid
                  => ordered_items[i].oid = ordered_items[j].oid
        /\ \A o \in DOMAIN orders : LinesOf(ordered_items, o) # {}

\* C4: place_order by a user whose cart is empty answers EmptyCart and leaves
\* the Order, Ordered_item and Cart tables as they were.
C4_EmptyCart ==
    [][(/\ Handles("place_order")
        /\ current_user # 0
        /\ CartRowsOf(carts, current_user) = {})
          => (response'.outcome = "EmptyCart" /\ NothingChanged)]_vars

C4_Witness ==
    /\ request.handler = "place_order"
    /\ response.outcome = "EmptyCart"
    /\ current_user # 0
    /\ carts # {}

\* C5: a register request with the email of an existing User answers Conflict
\* and creates no row, so no two User rows ever share an email.
C5_UniqueEmail ==
    /\ [](\A i, j \in DOMAIN users : users[i].email = users[j].email => i = j)
    /\ [][(/\ Handles("register")
           /\ request'.submit
           /\ current_user = 0
           /\ \E i \in DOMAIN users : users[i].email = request'.email)
             => (response'.outcome = "Conflict" /\ users' = users)]_vars

C5_Witness ==
    /\ request.handler = "register"
    /\ response.outcome = "Conflict"
    /\ Len(users) = 2

TokenValid(token, t) == token.sig /\ (t - token.ts) * TickSeconds <= MAX_AGE

\* C6: a confirmation flag changes only from false to true and only by
\* confirm_email with an issued token of that user's email that is at most one
\* hour old; an expired or undecodable token is rejected and changes no flag;
\* a valid token of a confirmed account succeeds and leaves the flag true.
C6_ConfirmationFlag ==
    [][/\ IsPrefix([i \in DOMAIN users |-> users[i].email],
                   [i \in DOMAIN users' |-> users'[i].email])
       /\ \A i \in DOMAIN users :
             users'[i].email_confirmed # users[i].email_confirmed
                => /\ Handles("confirm_email")
                   /\ request'.token \in tokens
                   /\ request'.token.email = users[i].email
                   /\ TokenValid(request'.token, now)
                   /\ ~users[i].email_confirmed
                   /\ users'[i].email_confirmed
                   /\ response'.outcome = "Confirmed"
       /\ (Handles("confirm_email") /\ ~TokenValid(request'.token, now))
             => (response'.outcome = "TokenExpiredOrInvalid" /\ users' = users)
       /\ (/\ Handles("confirm_email")
           /\ TokenValid(request'.token, now)
           /\ \E i \in DOMAIN users : /\ users[i].email = request'.token.email
                                      /\ users[i].email_confirmed)
             => (response'.outcome = "AlreadyConfirmed" /\ users' = users)]_vars

C6_Witness ==
    /\ request.handler = "confirm_email"
    /\ request.token.sig
    /\ response.outcome = "TokenExpiredOrInvalid"
    /\ \E i \in DOMAIN users : users[i].email = request.token.email /\ users[i].email_confirmed

\* C7: login by an unauthenticated caller establishes the session of user U
\* exactly when a User row with the email exists and its stored credential is
\* a hash of the password; otherwise it fails and the caller stays anonymous.
C7_Login ==
    [][(Handles("login") /\ request'.submit /\ current_user = 0)
          => LET matching == {i \in DOMAIN users :
                                /\ users[i].email = request'.email
                                /\ \E salt \in Salts :
                                      users[i].password
                                        = generate_password_hash(request'.password, salt)}
             IN  IF matching # {}
                 THEN current_user' \in matching /\ response'.outcome = "LoggedIn"
                 ELSE /\ current_user' = 0
                      /\ response'.outcome \in {"NoSuchUser", "InvalidCredential"}]_vars

C7_Witness ==
    /\ request.handler = "login"
    /\ response.outcome = "LoggedIn"
    /\ current_user = 2
    /\ users[current_user].email = request.email

C9_NotFound ==
    [][(/\ request'.id \notin ItemIds
        /\ \/ Handles("add_to_cart") /\ current_user # 0
           \/ Handles("item"))
          => response'.outcome = "NotFound"]_vars

\* C10: POST /checkout by an authenticated user succeeds and creates exactly
\* one Order of that user, leaving Cart and Ordered_item rows unchanged.
C10_Checkout ==
    [][(Handles("checkout") /\ request'.method = "POST" /\ current_user # 0)
          => /\ response'.outcome = "OrderPlaced"
             /\ Len(orders') = Len(orders) + 1
             /\ IsPrefix(orders, orders')
             /\ orders'[Len(orders')].uid = current_user
             /\ carts' = carts
             /\ ordered_items' = ordered_items]_vars

====
